---- MODULE Spec2Model ----
(***************************************************************************)
(* A model of shop.py: the product catalog (Inventory), the sales ledger   *)
(* (SalesManager), their CSV files, and the ShopSystem workflows that      *)
(* drive them.                                                             *)
(*                                                                         *)
(* Representation.                                                         *)
(*  - Inventory.products is a Python dict: here a sequence of Product      *)
(*    records in insertion order, looked up by product_id.                 *)
(*  - A Sale holds references to Product objects.  Of a referenced Product *)
(*    the program reads only product_id, name and price (Sale.to_dict,     *)
(*    record_sale), which are assigned in Product.__init__ and nowhere     *)
(*    else; quantity is the only field ever mutated and is read only       *)
(*    through Inventory.products.  A reference held by a Sale is therefore *)
(*    modelled by the value of those three fields.                         *)
(*  - A price is a float with one decimal digit, held in tenths (25 is     *)
(*    2.5); the CSV text of a number is the sequence of its characters.    *)
(***************************************************************************)
EXTENDS Integers, Sequences, FiniteSets, TLC

\* ---------------------------------------------------------------- bounds
MaxQty == 2     \* the largest quantity typed

MaxSteps == 7   \* the number of steps of a run

\* what is typed at the prompts
ProductIds == {"P1", "P2"}
NamePrices == {<<"Widget", 25>>, <<"Gadget", 100>>, <<"Widget", 100>>}
SaleIds == {"S1", "S2"}
Quantities == 0..MaxQty
SellQuantities == 1..MaxQty
TypedIds == ProductIds \cup {"P9"}
DeductQuantities == 0..(MaxQty + 1)

VARIABLES
    products,       \* Inventory.products
    sales,          \* SalesManager.sales
    inventory_csv,  \* the file inventory.csv
    sales_csv,      \* the file sales.csv
    pc,             \* "menu", or "selling" inside the loop of process_sale
    sale,           \* the local Sale of process_sale
    typed,          \* items typed so far in this process_sale
    steps,          \* steps taken so far
    stock0,         \* history: Inventory.products when process_sale began
    last            \* history: the last step, what was typed and what came back

vars == <<products, sales, inventory_csv, sales_csv, pc, sale, typed, steps, stock0, last>>

\* ------------------------------------------------------- text of numbers
DigitChars == <<"0", "1", "2", "3", "4", "5", "6", "7", "8", "9">>

DigitVal(c) == (CHOOSE i \in 1..10 : DigitChars[i] = c) - 1

RECURSIVE NatStr(_)
NatStr(n) ==
    IF n < 10 THEN <<DigitChars[n + 1]>>
    ELSE Append(NatStr(n \div 10), DigitChars[(n % 10) + 1])

RECURSIVE ParseNat(_)
ParseNat(s) ==
    IF Len(s) = 0 THEN 0
    ELSE ParseNat(SubSeq(s, 1, Len(s) - 1)) * 10 + DigitVal(s[Len(s)])

\* str(n) of an int, as csv.DictWriter writes it
str_int(n) == IF n < 0 THEN <<"-">> \o NatStr(0 - n) ELSE NatStr(n)

\* int(text)
int(s) == IF s[1] = "-" THEN 0 - ParseNat(Tail(s)) ELSE ParseNat(s)

\* str(x) of a float held in tenths: "2.5", "10.0"
str_float(x) == NatStr(x \div 10) \o <<".">> \o <<DigitChars[(x % 10) + 1]>>

\* float(text), in tenths
float(s) ==
    LET dot == CHOOSE i \in 1..Len(s) : s[i] = "."
    IN  ParseNat(SubSeq(s, 1, dot - 1)) * 10 + ParseNat(SubSeq(s, dot + 1, Len(s)))

\* ------------------------------------------------------------- Product
Product(product_id, name, price, quantity) ==
    [product_id |-> product_id, name |-> name, price |-> price, quantity |-> quantity]

\* update_quantity without its stock check
update_quantity_unguarded(p, quantity_sold) ==
    [ret |-> TRUE, product |-> [p EXCEPT !.quantity = p.quantity - quantity_sold]]

\* update_quantity subtracting before it checks
update_quantity_deductFirst(p, quantity_sold) ==
    [ret |-> p.quantity - quantity_sold >= 0,
     product |-> [p EXCEPT !.quantity = p.quantity - quantity_sold]]

\* update_quantity refusing to sell the last of the stock (>= for >)
update_quantity_strict(p, quantity_sold) ==
    IF quantity_sold >= p.quantity
    THEN [ret |-> FALSE, product |-> p]
    ELSE [ret |-> TRUE, product |-> [p EXCEPT !.quantity = p.quantity - quantity_sold]]

\* Product.update_quantity: the result and the product afterwards
update_quantity(p, quantity_sold) ==
    IF quantity_sold > p.quantity
    THEN [ret |-> FALSE, product |-> p]
    ELSE [ret |-> TRUE, product |-> [p EXCEPT !.quantity = p.quantity - quantity_sold]]

Product_to_dict(p) ==
    [product_id |-> p.product_id, product_name |-> p.name,
     price |-> p.price, quantity |-> p.quantity]

\* ------------------------------------------------- dict (insertion order)
HasKey(d, product_id) == \E i \in 1..Len(d) : d[i].product_id = product_id

KeyIndex(d, product_id) == CHOOSE i \in 1..Len(d) : d[i].product_id = product_id

DictGet(d, product_id) == d[KeyIndex(d, product_id)]

\* d[p.product_id] = p: an existing key keeps its place
DictSet(d, p) ==
    IF HasKey(d, p.product_id)
    THEN [d EXCEPT ![KeyIndex(d, p.product_id)] = p]
    ELSE Append(d, p)

\* ------------------------------------------------------------ Inventory
NoFile == [exists |-> FALSE, rows |-> <<>>]

\* Inventory.save_to_file: the header and one row per product, numbers as text
Inventory_save_to_file(d) ==
    [exists |-> TRUE,
     rows |-> [i \in 1..Len(d) |->
                 [product_id |-> d[i].product_id,
                  product_name |-> d[i].name,
                  price |-> str_float(d[i].price),
                  quantity |-> str_int(d[i].quantity)]]]

RECURSIVE LoadProductRows(_, _)
LoadProductRows(d, rows) ==
    IF Len(rows) = 0 THEN d
    ELSE LoadProductRows(
           DictSet(d, Product(rows[1].product_id, rows[1].product_name,
                              float(rows[1].price), int(rows[1].quantity))),
           Tail(rows))

\* Inventory.__init__ / load_from_file: a fresh, empty dict filled from the file
Inventory_load_from_file(file) ==
    IF file.exists THEN LoadProductRows(<<>>, file.rows) ELSE <<>>

\* add_product keeping the entry an id already has
Inventory_add_product_keepsFirst(d, p) ==
    IF HasKey(d, p.product_id) THEN d ELSE Append(d, p)

\* Inventory.add_product: the dict afterwards (AddProduct saves it)
Inventory_add_product(d, p) == DictSet(d, p)

view_inventory(d) == [i \in 1..Len(d) |-> Product_to_dict(d[i])]

\* Inventory.update_product: the result and the dict afterwards
update_product(d, product_id, quantity_sold) ==
    IF HasKey(d, product_id)
    THEN LET r == update_quantity(DictGet(d, product_id), quantity_sold)
         IN  [ret |-> r.ret, products |-> DictSet(d, r.product)]
    ELSE [ret |-> FALSE, products |-> d]

\* ----------------------------------------------------------------- Sale
Ref(p) == [product_id |-> p.product_id, name |-> p.name, price |-> p.price]

Sale(sale_id) == [sale_id |-> sale_id, products_sold |-> <<>>]

Sale_add_product(s, product, quantity) ==
    [s EXCEPT !.products_sold =
        Append(@, [product |-> Ref(product), quantity |-> quantity])]

Sale_to_dict(s) ==
    [i \in 1..Len(s.products_sold) |->
        LET p == s.products_sold[i].product
            q == s.products_sold[i].quantity
        IN  [sale_id |-> s.sale_id, product_id |-> p.product_id,
             product_name |-> p.name, quantity_sold |-> q,
             total_price |-> p.price * q]]

\* --------------------------------------------------------- SalesManager
RECURSIVE view_sales_report(_)
view_sales_report(ss) ==
    IF Len(ss) = 0 THEN <<>>
    ELSE Sale_to_dict(ss[1]) \o view_sales_report(Tail(ss))

SalesManager_save_to_file(ss) ==
    LET entries == view_sales_report(ss)
    IN  [exists |-> TRUE,
         rows |-> [i \in 1..Len(entries) |->
                     [sale_id |-> entries[i].sale_id,
                      product_id |-> entries[i].product_id,
                      product_name |-> entries[i].product_name,
                      quantity_sold |-> str_int(entries[i].quantity_sold),
                      total_price |-> str_float(entries[i].total_price)]]]

\* the row looked up in the catalog by its sale id
LoadSaleRow_wrongKey(d, row) ==
    IF HasKey(d, row.sale_id)
    THEN Sale_add_product(Sale(row.sale_id), DictGet(d, row.sale_id),
                          int(row.quantity_sold))
    ELSE Sale(row.sale_id)

\* one row of sales.csv: a new Sale, joined to the current catalog by product id
LoadSaleRow(d, row) ==
    IF HasKey(d, row.product_id)
    THEN Sale_add_product(Sale(row.sale_id), DictGet(d, row.product_id),
                          int(row.quantity_sold))
    ELSE Sale(row.sale_id)

SalesManager_load_from_file(d, file) ==
    IF file.exists
    THEN [i \in 1..Len(file.rows) |-> LoadSaleRow(d, file.rows[i])]
    ELSE <<>>

\* the loop of record_sale: every line item is deducted again; the values
\* update_product returns are dropped by the code and kept here in rets
RECURSIVE DeductAll(_, _)
DeductAll(st, items) ==
    IF Len(items) = 0 THEN st
    ELSE LET r == update_product(st.products, items[1].product.product_id,
                                 items[1].quantity)
         IN  DeductAll([products |-> r.products, rets |-> Append(st.rets, r.ret)],
                       Tail(items))

\* record_sale giving up, with nothing appended, when a deduction fails
record_sale_rollback(d, ss, s) ==
    LET st  == DeductAll([products |-> d, rets |-> <<>>], s.products_sold)
        ok  == \A i \in 1..Len(st.rets) : st.rets[i]
        ss2 == IF ok THEN Append(ss, s) ELSE ss
    IN  [products |-> IF ok THEN st.products ELSE d,
         rets |-> st.rets,
         sales |-> ss2,
         sales_csv |-> SalesManager_save_to_file(ss2)]

\* SalesManager.record_sale: the catalog, the sales list and sales.csv afterwards
record_sale(d, ss, s) ==
    LET st  == DeductAll([products |-> d, rets |-> <<>>], s.products_sold)
        ss2 == Append(ss, s)
    IN  [products |-> st.products,
         rets |-> st.rets,
         sales |-> ss2,
         sales_csv |-> SalesManager_save_to_file(ss2)]

\* ----------------------------------------------------------- ShopSystem
NotEnough == "Not enough stock!"
Invalid == "Invalid Product ID!"

Step(op, product_id, name, price, quantity, ret, out) ==
    [op |-> op, product_id |-> product_id, name |-> name, price |-> price,
     quantity |-> quantity, ret |-> ret, out |-> out]

\* ShopSystem.__init__ with no file on disk
Init ==
    /\ inventory_csv = NoFile
    /\ sales_csv = NoFile
    /\ products = Inventory_load_from_file(inventory_csv)
    /\ sales = SalesManager_load_from_file(products, sales_csv)
    /\ pc = "menu"
    /\ sale = Sale("")
    /\ typed = 0
    /\ steps = 0
    /\ stock0 = <<>>
    /\ last = Step("init", "", "", 0, 0, TRUE, "")

Tick ==
    /\ steps < MaxSteps
    /\ steps' = steps + 1

\* ShopSystem.add_product
AddProduct ==
    /\ Tick
    /\ pc = "menu"
    /\ \E product_id \in ProductIds, np \in NamePrices, quantity \in Quantities :
        LET name  == np[1]
            price == np[2]
            d == Inventory_add_product(products, Product(product_id, name, price, quantity))
        IN  /\ products' = d
            /\ inventory_csv' = Inventory_save_to_file(d)
            /\ last' = Step("add_product", product_id, name, price, quantity, TRUE,
                            "Product added successfully!")
    /\ UNCHANGED <<sales, sales_csv, pc, sale, typed, stock0>>

\* ShopSystem.process_sale up to its loop: the sale id is typed
BeginSale ==
    /\ Tick
    /\ pc = "menu"
    /\ \E sale_id \in SaleIds :
        /\ sale' = Sale(sale_id)
        /\ last' = Step("sell_begin", "", "", 0, 0, TRUE, "")
    /\ pc' = "selling"
    /\ typed' = 0
    /\ stock0' = products
    /\ UNCHANGED <<products, sales, inventory_csv, sales_csv>>

\* the loop body adding the item to the Sale whatever update_product returns
process_item_unchecked(d, s, product_id, quantity) ==
    IF HasKey(d, product_id)
    THEN LET r == update_product(d, product_id, quantity)
         IN  [products |-> r.products,
              sale |-> Sale_add_product(s, DictGet(r.products, product_id), quantity),
              ret |-> r.ret, out |-> IF r.ret THEN "" ELSE NotEnough]
    ELSE [products |-> d, sale |-> s, ret |-> FALSE, out |-> Invalid]

\* one turn of the loop of process_sale: what it does to the catalog and the Sale
process_item(d, s, product_id, quantity) ==
    IF HasKey(d, product_id)
    THEN LET r == update_product(d, product_id, quantity)
         IN  IF r.ret
             THEN [products |-> r.products,
                   sale |-> Sale_add_product(s, DictGet(r.products, product_id), quantity),
                   ret |-> TRUE, out |-> ""]
             ELSE [products |-> r.products, sale |-> s, ret |-> FALSE, out |-> NotEnough]
    ELSE [products |-> d, sale |-> s, ret |-> FALSE, out |-> Invalid]

\* a product id, and for a known one a quantity, is typed
SellItem ==
    /\ Tick
    /\ pc = "selling"
    /\ \E product_id \in TypedIds, quantity \in SellQuantities :
        LET r == process_item(products, sale, product_id, quantity)
        IN  /\ products' = r.products
            /\ sale' = r.sale
            /\ last' = Step("sell_item", product_id, "", 0, quantity, r.ret, r.out)
    /\ typed' = typed + 1
    /\ UNCHANGED <<sales, inventory_csv, sales_csv, pc, stock0>>

\* 'done' is typed: the loop ends and the sale is recorded
SellDone ==
    /\ Tick
    /\ pc = "selling"
    /\ LET r == record_sale(products, sales, sale)
       IN  /\ products' = r.products
           /\ sales' = r.sales
           /\ sales_csv' = r.sales_csv
           /\ last' = Step("sell_done", "", "", 0, 0,
                           \A i \in 1..Len(r.rets) : r.rets[i],
                           "recorded successfully!")
    /\ pc' = "menu"
    /\ sale' = Sale("")
    /\ typed' = 0
    /\ stock0' = <<>>
    /\ UNCHANGED inventory_csv

\* the process ends at the menu and a new ShopSystem() is constructed
Restart ==
    /\ Tick
    /\ pc = "menu"
    /\ LET d == Inventory_load_from_file(inventory_csv)
       IN  /\ products' = d
           /\ sales' = SalesManager_load_from_file(d, sales_csv)
    /\ last' = Step("restart", "", "", 0, 0, TRUE, "")
    /\ UNCHANGED <<inventory_csv, sales_csv, pc, sale, typed, stock0>>

Next == AddProduct \/ BeginSale \/ SellItem \/ SellDone \/ Restart

Spec == Init /\ [][Next]_vars

\* ------------------------------------------- the Inventory class on its own
\* Inventory.update_product called by a client of the class
UpdateProduct ==
    /\ Tick
    /\ pc = "menu"
    /\ \E product_id \in TypedIds, quantity_sold \in DeductQuantities :
        LET r == update_product(products, product_id, quantity_sold)
        IN  /\ products' = r.products
            /\ last' = Step("update_product", product_id, "", 0, quantity_sold, r.ret, "")
    /\ UNCHANGED <<sales, inventory_csv, sales_csv, pc, sale, typed, stock0>>

NextInventory == AddProduct \/ UpdateProduct \/ Restart

SpecInventory == Init /\ [][NextInventory]_vars

\* ------------------------------------------------------------- properties
Qty(d, product_id) == DictGet(d, product_id).quantity

\* the total quantity of product_id among the line items
RECURSIVE Sold(_, _)
Sold(items, product_id) ==
    IF Len(items) = 0 THEN 0
    ELSE (IF items[1].product.product_id = product_id THEN items[1].quantity ELSE 0)
         + Sold(Tail(items), product_id)

RECURSIVE SumOver(_, _)
SumOver(S, items) ==
    IF S = {} THEN 0
    ELSE LET i == CHOOSE j \in S : TRUE
         IN  items[i].quantity + SumOver(S \ {i}, items)

\* the line items whose deduction from catalog d succeeds when they are
\* deducted one after the other: item i succeeds iff its product is known and
\* its quantity is at most what the earlier successes left of that product
Succeeded(d, items) ==
    CHOOSE S \in SUBSET (1..Len(items)) :
        \A i \in 1..Len(items) :
            i \in S <=>
                /\ HasKey(d, items[i].product.product_id)
                /\ items[i].quantity <=
                     Qty(d, items[i].product.product_id)
                     - SumOver({j \in S : /\ j < i
                                          /\ items[j].product.product_id
                                               = items[i].product.product_id}, items)

Report == view_sales_report(sales)

\* C1: every item accepted by the sell workflow lowers its product's stock by
\* exactly the quantity sold, in total over assembly and recording, and the
\* sales report gains exactly one row per accepted item, with quantity_sold = n
\* and total_price = price * n.
C1_SaleLowersStockByQuantitySold ==
    [][last'.op = "sell_done" =>
        /\ \A i \in 1..Len(stock0) :
             /\ HasKey(products', stock0[i].product_id)
             /\ Qty(products', stock0[i].product_id)
                  = stock0[i].quantity - Sold(sale.products_sold, stock0[i].product_id)
        /\ view_sales_report(sales')
             = Report \o
               [i \in 1..Len(sale.products_sold) |->
                  LET it == sale.products_sold[i]
                      p  == DictGet(stock0, it.product.product_id)
                  IN  [sale_id |-> sale.sale_id, product_id |-> p.product_id,
                       product_name |-> p.name, quantity_sold |-> it.quantity,
                       total_price |-> p.price * it.quantity]]
      ]_vars

\* C2: whenever an operation has completed, a fresh Inventory loaded from
\* inventory.csv holds the products of the Inventory in memory, with the same
\* name, price and quantity.
C2_PersistedCatalogEqualsMemory ==
    pc = "menu" =>
        LET d == Inventory_load_from_file(inventory_csv)
        IN  {d[i] : i \in 1..Len(d)} = {products[i] : i \in 1..Len(products)}

\* C3: every product of the catalog has quantity >= 0, in every state of a run
\* of adds (quantity >= 0), sales (quantities > 0) and restarts.
C3_QuantityNonNegative ==
    \A i \in 1..Len(products) : products[i].quantity >= 0

\* a completed sale has sold out a product
C3_Witness ==
    /\ last.op = "sell_done"
    /\ Len(Report) > 0
    /\ \E i \in 1..Len(products) :
         /\ products[i].quantity = 0
         /\ Sold(sales[Len(sales)].products_sold, products[i].product_id) > 0

\* C4: update_product with an unknown id, or with more than the product's
\* quantity, returns False and changes no quantity and not the set of products.
C4_FailedDeductChangesNothing ==
    [][(/\ last'.op = "update_product"
        /\ IF HasKey(products, last'.product_id)
           THEN last'.quantity > Qty(products, last'.product_id)
           ELSE TRUE)
       => /\ last'.ret = FALSE
          /\ products' = products
      ]_vars

\* more than the stock of a known product was asked for, with stock left
C4_Witness ==
    /\ last.op = "update_product"
    /\ last.ret = FALSE
    /\ HasKey(products, last.product_id)
    /\ Qty(products, last.product_id) > 0
    /\ last.quantity > Qty(products, last.product_id)

\* C5: update_product with a known id and at most the product's quantity
\* returns True, lowers that product's quantity by exactly that much and leaves
\* every other product as it was.
C5_DeductLowersByExactlyN ==
    [][(/\ last'.op = "update_product"
        /\ HasKey(products, last'.product_id)
        /\ last'.quantity <= Qty(products, last'.product_id))
       => /\ last'.ret = TRUE
          /\ Len(products') = Len(products)
          /\ \A i \in 1..Len(products) :
               products'[i] =
                 IF products[i].product_id = last'.product_id
                 THEN [products[i] EXCEPT !.quantity = @ - last'.quantity]
                 ELSE products[i]
      ]_vars

\* a deduction took all that was left of one of two products
C5_Witness ==
    /\ last.op = "update_product"
    /\ last.ret = TRUE
    /\ last.quantity > 0
    /\ Len(products) = 2
    /\ Qty(products, last.product_id) = 0

\* C6: in the sell workflow an item with an unknown id or with more than the
\* current stock is skipped: the sale, the stock and the ledger stay as they
\* are and the loop goes on; an item that succeeds is appended to the sale, so
\* the sale holds the succeeded items in the order typed; at 'done' the sale is
\* recorded as assembled, also with no item, and then no stock level and no
\* report row changes.
C6_FailedItemSkipped ==
    [][/\ last'.op = "sell_item" =>
            LET id == last'.product_id
                q  == last'.quantity
            IN  IF (IF HasKey(products, id) THEN q > Qty(products, id) ELSE TRUE)
                THEN /\ last'.ret = FALSE
                     /\ sale' = sale
                     /\ products' = products
                     /\ sales' = sales
                     /\ pc' = "selling"
                ELSE /\ last'.ret = TRUE
                     /\ sale' = [sale EXCEPT !.products_sold =
                                   Append(@, [product |-> Ref(DictGet(products, id)),
                                              quantity |-> q])]
                     /\ sales' = sales
                     /\ pc' = "selling"
       /\ last'.op = "sell_done" =>
            /\ sales' = Append(sales, sale)
            /\ sale.products_sold = <<>> =>
                 /\ products' = products
                 /\ view_sales_report(sales') = Report
      ]_vars

\* the first item typed was skipped and the second one was sold
C6_Witness ==
    /\ pc = "selling"
    /\ typed = 2
    /\ last.op = "sell_item"
    /\ last.ret = TRUE
    /\ Len(sale.products_sold) = 1

\* every line item of the ledger names a product that the catalog holds with
\* the name and the price it was recorded with
CatalogAsRecorded ==
    \A k \in 1..Len(sales) : \A i \in 1..Len(sales[k].products_sold) :
        LET r == sales[k].products_sold[i].product
        IN  /\ HasKey(products, r.product_id)
            /\ Ref(DictGet(products, r.product_id)) = r

\* C7: a fresh SalesManager loaded from sales.csv against the catalog the sales
\* were recorded with reports the same rows, in the same order, as the
\* SalesManager in memory.
C7_LedgerRoundTrip ==
    CatalogAsRecorded =>
        view_sales_report(SalesManager_load_from_file(products, sales_csv)) = Report

\* the saved ledger holds a sale of two items and a sale of none
C7_Witness ==
    /\ CatalogAsRecorded
    /\ sales_csv = SalesManager_save_to_file(sales)
    /\ \E k \in 1..Len(sales) : Len(sales[k].products_sold) = 2
    /\ \E k \in 1..Len(sales) : Len(sales[k].products_sold) = 0

\* C8: after add_product(p), view_inventory holds exactly one entry for p's id
\* and it equals p; an existing id is overwritten in place, and every other
\* entry is as it was.
C8_AddThenView ==
    [][last'.op = "add_product" =>
        LET v == view_inventory(products')
            p == [product_id |-> last'.product_id, product_name |-> last'.name,
                  price |-> last'.price, quantity |-> last'.quantity]
        IN  /\ Cardinality({i \in 1..Len(v) : v[i].product_id = p.product_id}) = 1
            /\ \E i \in 1..Len(v) : v[i] = p
            /\ Len(v) = Len(products) + (IF HasKey(products, p.product_id) THEN 0 ELSE 1)
            /\ \A i \in 1..Len(products) :
                 products[i].product_id # p.product_id => products'[i] = products[i]
      ]_vars

\* a product that had been sold was added again under another name, beside
\* another product
C8_Witness ==
    /\ last.op = "add_product"
    /\ Len(products) = 2
    /\ \E k \in 1..Len(sales) : \E i \in 1..Len(sales[k].products_sold) :
         /\ sales[k].products_sold[i].product.product_id = last.product_id
         /\ sales[k].products_sold[i].product.name # last.name

\* C9: the report rows of the recorded sales stay what they are under every
\* later step, a restart after the product was added again included.
C9_RecordedRowsImmutable ==
    [][\A i \in 1..Len(Report) :
          /\ i <= Len(view_sales_report(sales'))
          /\ view_sales_report(sales')[i] = Report[i]
      ]_vars

\* C10: record_sale appends the sale at the end of the sales list and leaves
\* the sales before it as they are; it does so whether or not every deduction
\* succeeds, and each product loses exactly the quantities of the line items
\* whose deduction succeeded.
C10_RecordAppendsBestEffort ==
    [][last'.op = "sell_done" =>
        LET items == sale.products_sold
            S == Succeeded(products, items)
        IN  /\ sales' = Append(sales, sale)
            /\ last'.ret = (S = 1..Len(items))
            /\ Len(products') = Len(products)
            /\ \A i \in 1..Len(products) :
                 products'[i] =
                   [products[i] EXCEPT !.quantity =
                      @ - SumOver({j \in S : items[j].product.product_id
                                               = products[i].product_id}, items)]
      ]_vars

\* a second sale was appended although a deduction of record_sale failed
C10_Witness ==
    /\ last.op = "sell_done"
    /\ last.ret = FALSE
    /\ Len(sales) = 2
    /\ Len(sales[2].products_sold) > 0

====
